---- MODULE Spec2Model ----
(***************************************************************************)
(* A model of batc.py: the `setup` command (one-time shell profile         *)
(* installer) and the `run` command (render a Slurm script, submit it with *)
(* sbatch through a temporary file, write a submission record).            *)
(*                                                                         *)
(* Text whose characters matter (the bytes a child writes, their str()     *)
(* form, the job id) is a sequence of one-character strings; text that is  *)
(* only assembled and compared whole (paths, directive lines) is a string. *)
(***************************************************************************)
EXTENDS Integers, Sequences, FiniteSets, TLC

VARIABLES
    \* ---- the process environment and the filesystem ----
    cwd,          \* the process's current directory (relative paths resolve here)
    envPWD,       \* os.getenv('PWD')
    fs,           \* the files that exist: a function from path to content
    fs0,          \* the files as they were when `run` started (never changes)
    \* ---- `run` ----
    cfg,          \* the options and argument click hands to run()
    pc,           \* where run() is
    loc,          \* run's locals after lines 83-96
    slurm_script, \* the rendered script, a sequence of lines
    tempCreated,  \* whether NamedTemporaryFile() has been called
    prog,         \* what this host's sbatch does once started
    child,        \* the sbatch child process
    pipeOut,      \* bytes in the child's stdout pipe, not yet read
    pipeErr,      \* bytes in the child's stderr pipe, not yet read
    stdout,       \* run's local `stdout`
    stderr,       \* run's local `stderr`
    \* ---- `setup` ----
    shellEnv,     \* BATC_SETUP in the invoking shell (inherited by each process)
    envUSER,      \* os.getenv('USER')
    bashrc,       \* ~/.bashrc, a sequence of lines
    pipInstalls,  \* how many times "pip install conda" has run
    sourceCalls,  \* how many times "source ~/.bashrc" has run in a subshell
    echoed,       \* what click.echo has printed
    setups        \* how many times setup() has been invoked

runVars   == <<cwd, envPWD, fs, fs0, cfg, pc, loc, slurm_script, tempCreated,
               prog, child, pipeOut, pipeErr, stdout, stderr>>
setupVars == <<shellEnv, envUSER, bashrc, pipInstalls, sourceCalls, echoed, setups>>
vars      == <<runVars, setupVars>>

\* Python's None
None == [t |-> "None"]

\* ------------------------------------------------------------------------
\* Bounds of the model
\* ------------------------------------------------------------------------
\* at most this many write() calls of the child on its stdout
MaxChunks == 3
\* at most this many write() calls of the child on its stderr
MaxErrChunks == 1
\* at most this many files exist when run starts
MaxFiles == 2
\* a pipe holds at most this many bytes (the operating system's pipe buffer)
PipeCap == 41
\* at most this many invocations of setup
MaxSetups == 6

\* ------------------------------------------------------------------------
\* Python values and their text
\* ------------------------------------------------------------------------
PyInt(n) == [t |-> "int", v |-> n]
PyStr(s) == [t |-> "str", v |-> s]

\* What an f-string puts for {value} when the value is not always a str (cpu
\* and ntasks are ints from click, cpu a str after -M, conda_env None by
\* default): an int in decimal, a str as it is, None as "None".
Fmt(val) ==
    CASE val.t = "int"  -> ToString(val.v)
      [] val.t = "str"  -> val.v
      [] val.t = "None" -> "None"

\* ------------------------------------------------------------------------
\* Paths
\* ------------------------------------------------------------------------
\* A relative name resolved in directory d (the names of the model are all
\* relative, the directories all absolute).
InDir(d, name) == d \o "/" \o name

\* os.path.isfile(name): the process's current directory decides.
isfile(name) == InDir(cwd, name) \in DOMAIN fs

\* os.path.join(os.getenv('PWD'), datafile)
DataPath(datafile) == InDir(envPWD, datafile)

\* ------------------------------------------------------------------------
\* run, lines 83-96: the command, the file names, the override
\* ------------------------------------------------------------------------
NormalizeCommand(command) ==
    IF isfile(command) THEN "python " \o command ELSE command

\* Mutant: the log file name is never derived from the job name.
DeriveLogfile_NeverDerived(logfile, job) == logfile

DeriveLogfile(logfile, job) ==
    IF logfile = "" THEN job \o ".log" ELSE logfile

DeriveDatafile(datafile, job) ==
    IF datafile = "" THEN job \o ".data" ELSE datafile

\* Mutant: the existence check is left out.
LogfileExists_NoCheck(logfile) == FALSE

\* The existence check of line 89.
LogfileExists(logfile) == isfile(logfile)

\* Mutant: -M forgets mem.
Override_ForgetsMem(l, m) ==
    IF m
    THEN [l EXCEPT !.qos = "huge-long",
                   !.cpu = PyStr("4"),
                   !.gpu = "rtxa4000:4"]
    ELSE l

\* Lines 92-96: -M replaces qos, cpu, gpu and mem.
Override(l, m) ==
    IF m
    THEN [l EXCEPT !.qos = "huge-long",
                   !.cpu = PyStr("4"),
                   !.gpu = "rtxa4000:4",
                   !.mem = "32"]
    ELSE l

\* Lines 98-117: the template.
Render(c, l) ==
    << "#!/bin/bash",
       "#SBATCH --job-name=" \o c.job,
       "#SBATCH --qos=" \o l.qos,
       "#SBATCH --partition=" \o c.part,
       "#SBATCH --account=" \o c.acc,
       "#SBATCH --ntasks=" \o Fmt(c.ntasks),
       "#SBATCH --cpus-per-task=" \o Fmt(l.cpu),
       "#SBATCH --mem=" \o l.mem \o "gb",
       "#SBATCH --gpus=" \o l.gpu,
       "#SBATCH --time=" \o c.time,
       "#SBATCH --output=" \o c.pwd \o "/" \o l.logfile
           \o " # Redirect the output to a file",
       "",
       "eval \"$(conda shell.bash hook)\"",
       "",
       "# Activate conda environment",
       "conda activate " \o Fmt(c.conda_env),
       "",
       "# Run your Python script or other commands",
       l.command >>

\* run's locals once lines 83-88 have run.
Locals(c) ==
    [command  |-> NormalizeCommand(c.command),
     logfile  |-> DeriveLogfile(c.logfile, c.job),
     datafile |-> DeriveDatafile(c.datafile, c.job),
     qos |-> c.qos, cpu |-> c.cpu, gpu |-> c.gpu, mem |-> c.mem]

NoLocals == [command |-> "", logfile |-> "", datafile |-> "",
             qos |-> "", cpu |-> None, gpu |-> "", mem |-> ""]

\* ------------------------------------------------------------------------
\* Bytes, str() and the job id pattern (lines 129-139)
\* ------------------------------------------------------------------------
\* A captured stream is a bytes object; run's initial "" is a str.
PyBytes(chars) == [t |-> "bytes", v |-> chars]

\* "Submitted batch job ", the literal part of the pattern of line 134.
Prefix ==
    << "S","u","b","m","i","t","t","e","d"," ",
       "b","a","t","c","h"," ","j","o","b"," " >>

Digits == {"0","1","2","3","4","5","6","7","8","9"}

\* The quote bytes.__repr__ picks: double quotes when the bytes hold a single
\* quote and no double quote, single quotes otherwise.
ReprQuote(chars) ==
    IF (\E i \in 1..Len(chars) : chars[i] = "'")
       /\ ~(\E i \in 1..Len(chars) : chars[i] = "\"")
    THEN "\"" ELSE "'"

\* One byte as bytes.__repr__ writes it inside the quotes q (the bytes of the
\* model are printable ASCII, newline, tab and carriage return).
ReprByte(c, q) ==
    CASE c = "\\" -> <<"\\", "\\">>
      [] c = q    -> <<"\\", q>>
      [] c = "\n" -> <<"\\", "n">>
      [] c = "\t" -> <<"\\", "t">>
      [] c = "\r" -> <<"\\", "r">>
      [] OTHER    -> <<c>>

RECURSIVE ReprBody(_, _)
ReprBody(chars, q) ==
    IF chars = <<>> THEN <<>>
    ELSE ReprByte(Head(chars), q) \o ReprBody(Tail(chars), q)

\* repr(b): b'...'
ReprBytes(chars) ==
    LET q == ReprQuote(chars) IN <<"b", q>> \o ReprBody(chars, q) \o <<q>>

\* Mutant: bytes are written as the text they hold.
str_Decoded(val) == val.v

\* str(value) of lines 134 and 159: a str is itself, bytes are their repr.
str(val) == IF val.t = "bytes" THEN ReprBytes(val.v) ELSE val.v

\* Lines 129-132: a None stream becomes "".
NoneToEmpty(val) == IF val.t = "None" THEN [t |-> "str", v |-> <<>>] ELSE val

\* Whether the pattern matches the text at position i: the literal, then at
\* least one digit.
MatchAt(text, i) ==
    /\ i + Len(Prefix) <= Len(text)
    /\ SubSeq(text, i, i + Len(Prefix) - 1) = Prefix
    /\ text[i + Len(Prefix)] \in Digits

\* (\d+) from position i on: the longest run of digits.
RECURSIVE DigitRun(_, _)
DigitRun(text, i) ==
    IF i <= Len(text) /\ text[i] \in Digits
    THEN <<text[i]>> \o DigitRun(text, i + 1)
    ELSE <<>>

\* Mutant: the group is (\d), one digit.
re_search_OneDigit(text) ==
    LET hits == {i \in 1..Len(text) : MatchAt(text, i)} IN
    IF hits = {} THEN None
    ELSE LET first == CHOOSE i \in hits : \A j \in hits : i <= j
         IN  [t |-> "match", group1 |-> <<text[first + Len(Prefix)]>>]

\* re.search(r"Submitted batch job (\d+)", text): group 1 of the leftmost
\* match, or None.
re_search(text) ==
    LET hits == {i \in 1..Len(text) : MatchAt(text, i)} IN
    IF hits = {} THEN None
    ELSE LET first == CHOOSE i \in hits : \A j \in hits : i <= j
         IN  [t |-> "match", group1 |-> DigitRun(text, first + Len(Prefix))]

UnknownPID == <<"U","n","k","n","o","w","n"," ","P","I","D">>

\* Lines 134-139.
ExtractPid(out) ==
    LET pid_match == re_search(str(out)) IN
    IF pid_match.t = "match" THEN pid_match.group1 ELSE UnknownPID

\* f"PID : {pid}"
PidLine(pid) == <<"P","I","D"," ",":"," ">> \o pid

\* Lines 142-159: what is written to the record file, line by line.
RecordLines(pid, now, script, out, err) ==
    [kind   |-> "record",
     header |-> "# Details <batc> ::",
     pid    |-> PidLine(pid),
     time   |-> "Time of job submission: " \o now,
     script |-> script,
     stdout |-> str(out),
     stderr |-> str(err)]

\* The content of a file that was there before run started.
OtherContent == [kind |-> "other"]

\* ------------------------------------------------------------------------
\* The inputs of the model
\* ------------------------------------------------------------------------
Dirs     == {"/a", "/b"}
Jobs     == {"foo", "bar"}
Logfiles == {"", "out.log"}
Datafiles == {"", "out.data"}
Commands == {"train.py", "python train.py --flag"}
Times    == {"2026-01-01 10:00:00.000001"}

\* tempfile.NamedTemporaryFile picks a name no file has.
TempPath == "/tmp/tmpk3x9q_r2"

\* partition_acc_name of line 11 on a host named nexusclip...
partition_acc_name == "clip"

\* The options as click fills them in when none is given (lines 59-72), with
\* the process's PWD as --pwd.
DefaultCfg(pwd) ==
    [command |-> "python train.py --flag", job |-> "default", qos |-> "default",
     ntasks |-> PyInt(1), cpu |-> PyInt(1), mem |-> "32", gpu |-> "rtxa4000:1",
     time |-> "10:00", pwd |-> pwd, conda_env |-> None,
     acc |-> partition_acc_name, part |-> partition_acc_name,
     datafile |-> "", logfile |-> "", m |-> FALSE]

\* The paths at which a file may be when run starts.
CandidatePaths ==
    {InDir(d, n) : d \in Dirs,
                   n \in {j \o ".log" : j \in Jobs} \cup (Logfiles \ {""})
                         \cup {"foo.data"} \cup (Datafiles \ {""})
                         \cup {"train.py"}}

Filesystems ==
    {[p \in P |-> OtherContent] :
        P \in {Q \in SUBSET CandidatePaths : Cardinality(Q) <= MaxFiles}}

\* What an sbatch may write in one write() call.
Chunks ==
    {Prefix, <<"1">>, <<"2">>, <<"\n">>, <<"'">>, <<"\"">>, <<"\\">>}
ErrChunks == {<<"e", "r", "r", "\n">>}

RECURSIVE SeqsUpTo(_, _)
SeqsUpTo(S, n) ==
    IF n = 0 THEN {<<>>}
    ELSE LET shorter == SeqsUpTo(S, n - 1)
         IN  shorter \cup {Append(q, x) : q \in shorter, x \in S}

\* What an sbatch may do: the chunks it writes to each stream, then its exit
\* code.
Programs ==
    [out : SeqsUpTo(Chunks, MaxChunks), err : SeqsUpTo(ErrChunks, MaxErrChunks),
     code : {0, 1}]

\* A submission that succeeds, and one that is refused.
FewPrograms ==
    {[out |-> <<Prefix, <<"1">>, <<"\n">>>>, err |-> <<>>, code |-> 0],
     [out |-> <<>>, err |-> <<<<"e", "r", "r", "\n">>>>, code |-> 1]}

NoChild == [state |-> "none", outLeft |-> <<>>, errLeft |-> <<>>, code |-> None]

InitSetupIdle ==
    /\ shellEnv = None
    /\ envUSER = PyStr("alice")
    /\ bashrc = <<>>
    /\ pipInstalls = 0
    /\ sourceCalls = 0
    /\ echoed = <<>>
    /\ setups = 0

InitRunCommon ==
    /\ fs = fs0
    /\ pc = "start"
    /\ loc = NoLocals
    /\ slurm_script = <<>>
    /\ tempCreated = FALSE
    /\ child = NoChild
    /\ pipeOut = <<>>
    /\ pipeErr = <<>>
    /\ stdout = [t |-> "str", v |-> <<>>]
    /\ stderr = [t |-> "str", v |-> <<>>]

\* The file names, the directories and the files vary.
InitFlow ==
    /\ cwd \in Dirs
    /\ envPWD = cwd
    /\ fs0 \in Filesystems
    /\ \E job \in Jobs, logfile \in Logfiles, datafile \in Datafiles,
          pwd \in Dirs, command \in Commands :
          cfg = [DefaultCfg(pwd) EXCEPT !.job = job, !.logfile = logfile,
                                        !.datafile = datafile,
                                        !.command = command]
    /\ prog \in FewPrograms

\* The resource options vary.
InitRender ==
    /\ cwd = "/a"
    /\ envPWD = "/a"
    /\ fs0 = [p \in {} |-> OtherContent]
    /\ \E job \in Jobs, qos \in {"default", "high"}, ntasks \in {1, 2},
          cpu \in {1, 8}, mem \in {"32", "64"},
          gpu \in {"rtxa4000:1", "rtxa6000:2"}, time \in {"10:00", "02:30"},
          acc \in {partition_acc_name, "scavenger"},
          part \in {partition_acc_name, "scavenger"}, m \in BOOLEAN :
          cfg = [DefaultCfg("/a") EXCEPT !.job = job, !.qos = qos,
                    !.ntasks = PyInt(ntasks), !.cpu = PyInt(cpu), !.mem = mem,
                    !.gpu = gpu, !.time = time, !.acc = acc, !.part = part,
                    !.m = m]
    /\ prog \in FewPrograms

\* What sbatch writes and how it exits vary.
InitSubmit ==
    /\ cwd = "/a"
    /\ envPWD = "/a"
    /\ fs0 = [p \in {} |-> OtherContent]
    /\ cfg = DefaultCfg("/a")
    /\ prog \in Programs

Init ==
    /\ InitSetupIdle
    /\ (InitFlow \/ InitRender \/ InitSubmit)
    /\ InitRunCommon

\* ------------------------------------------------------------------------
\* run
\* ------------------------------------------------------------------------
\* Mutant: delete=False, the file stays.
CloseTemp_KeepsFile(files) == files

\* Leaving the `with` block of line 120 closes the temporary file, and
\* delete=True removes it.
CloseTemp(files) == [p \in DOMAIN files \ {TempPath} |-> files[p]]

\* open(path, 'w') and the writes of lines 156-159: the file is created or
\* truncated and holds the record.
WriteFile(files, path, content) ==
    [p \in DOMAIN files \cup {path} |-> IF p = path THEN content ELSE files[p]]

\* What the with block must wait for: process.wait() returns once the child
\* has exited.
WaitDone(c) == c.state = "exited"

\* Lines 83-117: the command, the file names, the existence check, the
\* override and the template.
Prepare ==
    /\ pc = "start"
    /\ LET l == Locals(cfg) IN
       IF LogfileExists(l.logfile)
       THEN /\ pc' = "usage_error"
            /\ loc' = l
            /\ UNCHANGED slurm_script
       ELSE /\ pc' = "rendered"
            /\ loc' = Override(l, cfg.m)
            /\ slurm_script' = Render(cfg, Override(l, cfg.m))
    /\ UNCHANGED <<cwd, envPWD, fs, fs0, cfg, tempCreated, prog, child,
                   pipeOut, pipeErr, stdout, stderr, setupVars>>

\* Line 120: the temporary file is created, empty.
OpenTemp ==
    /\ pc = "rendered"
    /\ pc' = "tempopen"
    /\ tempCreated' = TRUE
    /\ fs' = WriteFile(fs, TempPath, [kind |-> "script", text |-> <<>>])
    /\ UNCHANGED <<cwd, envPWD, fs0, cfg, loc, slurm_script, prog, child,
                   pipeOut, pipeErr, stdout, stderr, setupVars>>

\* Lines 121-123: the script is written and flushed.
WriteScript ==
    /\ pc = "tempopen"
    /\ pc' = "written"
    /\ fs' = WriteFile(fs, TempPath, [kind |-> "script", text |-> slurm_script])
    /\ UNCHANGED <<cwd, envPWD, fs0, cfg, loc, slurm_script, tempCreated, prog,
                   child, pipeOut, pipeErr, stdout, stderr, setupVars>>

\* Lines 121-122 raise (the disk is full): the with block is left.
WriteScriptFails ==
    /\ pc = "tempopen"
    /\ pc' = "io_error"
    /\ fs' = CloseTemp(fs)
    /\ UNCHANGED <<cwd, envPWD, fs0, cfg, loc, slurm_script, tempCreated, prog,
                   child, pipeOut, pipeErr, stdout, stderr, setupVars>>

\* Lines 124-125: sbatch is started with both streams piped.
Spawn ==
    /\ pc = "written"
    /\ pc' = "wait"
    /\ child' = [state |-> "running", outLeft |-> prog.out,
                 errLeft |-> prog.err, code |-> None]
    /\ UNCHANGED <<cwd, envPWD, fs, fs0, cfg, loc, slurm_script, tempCreated,
                   prog, pipeOut, pipeErr, stdout, stderr, setupVars>>

\* Lines 124-125 raise (no sbatch on the PATH): the with block is left.
SpawnFails ==
    /\ pc = "written"
    /\ pc' = "spawn_error"
    /\ fs' = CloseTemp(fs)
    /\ UNCHANGED <<cwd, envPWD, fs0, cfg, loc, slurm_script, tempCreated, prog,
                   child, pipeOut, pipeErr, stdout, stderr, setupVars>>

\* The child writes its next chunk to stdout; the write blocks while the pipe
\* has no room for it (nobody reads the pipe during process.wait()).
ChildWriteOut ==
    /\ pc = "wait"
    /\ child.state = "running"
    /\ child.outLeft # <<>>
    /\ Len(pipeOut) + Len(Head(child.outLeft)) <= PipeCap
    /\ pipeOut' = pipeOut \o Head(child.outLeft)
    /\ child' = [child EXCEPT !.outLeft = Tail(@)]
    /\ UNCHANGED <<cwd, envPWD, fs, fs0, cfg, pc, loc, slurm_script,
                   tempCreated, prog, pipeErr, stdout, stderr, setupVars>>

\* The child writes its next chunk to stderr.
ChildWriteErr ==
    /\ pc = "wait"
    /\ child.state = "running"
    /\ child.errLeft # <<>>
    /\ Len(pipeErr) + Len(Head(child.errLeft)) <= PipeCap
    /\ pipeErr' = pipeErr \o Head(child.errLeft)
    /\ child' = [child EXCEPT !.errLeft = Tail(@)]
    /\ UNCHANGED <<cwd, envPWD, fs, fs0, cfg, pc, loc, slurm_script,
                   tempCreated, prog, pipeOut, stdout, stderr, setupVars>>

\* The child has written everything and exits with its code.
ChildExit ==
    /\ pc = "wait"
    /\ child.state = "running"
    /\ child.outLeft = <<>>
    /\ child.errLeft = <<>>
    /\ child' = [child EXCEPT !.state = "exited", !.code = prog.code]
    /\ UNCHANGED <<cwd, envPWD, fs, fs0, cfg, pc, loc, slurm_script,
                   tempCreated, prog, pipeOut, pipeErr, stdout, stderr,
                   setupVars>>

\* Line 126: process.wait() returns.
WaitReturns ==
    /\ pc = "wait"
    /\ WaitDone(child)
    /\ pc' = "communicate"
    /\ UNCHANGED <<cwd, envPWD, fs, fs0, cfg, loc, slurm_script, tempCreated,
                   prog, child, pipeOut, pipeErr, stdout, stderr, setupVars>>

\* Line 126 raises (KeyboardInterrupt while waiting): the with block is left.
WaitInterrupted ==
    /\ pc = "wait"
    /\ ~WaitDone(child)
    /\ pc' = "interrupted"
    /\ fs' = CloseTemp(fs)
    /\ UNCHANGED <<cwd, envPWD, fs0, cfg, loc, slurm_script, tempCreated, prog,
                   child, pipeOut, pipeErr, stdout, stderr, setupVars>>

\* Line 127 and the end of the with block: both pipes are read to their end
\* (the child has exited, so the end comes), and the temporary file goes.
Communicate ==
    /\ pc = "communicate"
    /\ pc' = "captured"
    /\ stdout' = PyBytes(pipeOut)
    /\ stderr' = PyBytes(pipeErr)
    /\ pipeOut' = <<>>
    /\ pipeErr' = <<>>
    /\ fs' = CloseTemp(fs)
    /\ UNCHANGED <<cwd, envPWD, fs0, cfg, loc, slurm_script, tempCreated, prog,
                   child, setupVars>>

\* Lines 129-159: the job id and the record file.
WriteRecord ==
    /\ pc = "captured"
    /\ pc' = "done"
    /\ \E now \in Times :
          fs' = WriteFile(fs, DataPath(loc.datafile),
                    RecordLines(ExtractPid(NoneToEmpty(stdout)), now,
                                slurm_script, NoneToEmpty(stdout),
                                NoneToEmpty(stderr)))
    /\ UNCHANGED <<cwd, envPWD, fs0, cfg, loc, slurm_script, tempCreated, prog,
                   child, pipeOut, pipeErr, stdout, stderr, setupVars>>

Next ==
    \/ Prepare
    \/ OpenTemp
    \/ WriteScript
    \/ WriteScriptFails
    \/ Spawn
    \/ SpawnFails
    \/ ChildWriteOut
    \/ ChildWriteErr
    \/ ChildExit
    \/ WaitReturns
    \/ WaitInterrupted
    \/ Communicate
    \/ WriteRecord

Spec == Init /\ [][Next]_vars

\* ------------------------------------------------------------------------
\* setup
\* ------------------------------------------------------------------------
Users == {PyStr("alice"), PyStr("bob"), None}

\* What a user may export BATC_SETUP as by hand.
GuardValues == {PyStr("true"), PyStr("1")}

AlreadyDone == "Setup has already been completed"

\* Mutant: the guard is compared with another spelling.
GuardIsSet_OtherSpelling(env) == env = PyStr("1")

\* Line 36: os.getenv("BATC_SETUP") == "true"
GuardIsSet(env) == env = PyStr("true")

\* Lines 42-45.
lines_to_add(user) ==
    << "alias scratch=\"cd /fs/nexus-scratch/" \o Fmt(user) \o "/\"",
       "export BATC_SETUP=true" >>

\* Lines 49-53: what is appended to ~/.bashrc.
Block(user) ==
    <<"", "# Added by <batc>">> \o lines_to_add(user) \o <<"# End of <batc>">>

\* What os.system("source ~/.bashrc") of line 55 does to BATC_SETUP in the
\* environment of the process that calls it: the command runs in a child
\* shell, whose variables end with it.
SourceInSubshell(env, profile) == env

\* The whole of setup(), in a process that inherits the shell's environment.
Setup ==
    /\ setups < MaxSetups
    /\ setups' = setups + 1
    /\ IF GuardIsSet(shellEnv)
       THEN /\ echoed' = Append(echoed, AlreadyDone)
            /\ UNCHANGED <<shellEnv, bashrc, pipInstalls, sourceCalls>>
       ELSE /\ pipInstalls' = pipInstalls + 1
            /\ bashrc' = bashrc \o Block(envUSER)
            /\ sourceCalls' = sourceCalls + 1
            /\ shellEnv' = SourceInSubshell(shellEnv, bashrc')
            /\ UNCHANGED echoed
    /\ UNCHANGED <<envUSER, runVars>>

\* The user opens a new shell, which reads ~/.bashrc.
NewShell ==
    /\ \E i \in 1..Len(bashrc) : bashrc[i] = "export BATC_SETUP=true"
    /\ shellEnv # PyStr("true")
    /\ shellEnv' = PyStr("true")
    /\ UNCHANGED <<envUSER, bashrc, pipInstalls, sourceCalls, echoed, setups,
                   runVars>>

\* The user exports BATC_SETUP by hand.
UserExport ==
    /\ shellEnv = None
    /\ \E v \in GuardValues : shellEnv' = v
    /\ UNCHANGED <<envUSER, bashrc, pipInstalls, sourceCalls, echoed, setups,
                   runVars>>

\* setup runs in a shell of its own; no run is under way.
InitSetup ==
    /\ shellEnv = None
    /\ envUSER \in Users
    /\ bashrc = <<>>
    /\ pipInstalls = 0
    /\ sourceCalls = 0
    /\ echoed = <<>>
    /\ setups = 0
    /\ cwd = "/a"
    /\ envPWD = "/a"
    /\ fs0 = [p \in {} |-> OtherContent]
    /\ cfg = DefaultCfg("/a")
    /\ prog = [out |-> <<>>, err |-> <<>>, code |-> 0]
    /\ InitRunCommon

NextSetup == Setup \/ NewShell \/ UserExport

SetupSpec == InitSetup /\ [][NextSetup]_vars

\* How many blocks ~/.bashrc holds.
Blocks == Cardinality({i \in 1..Len(bashrc) : bashrc[i] = "# Added by <batc>"})

\* ========================================================================
\* Properties
\* ========================================================================
\* The names the claims speak of, written out from the inputs.
ClaimLogName  == IF cfg.logfile = "" THEN cfg.job \o ".log" ELSE cfg.logfile
ClaimDataName == IF cfg.datafile = "" THEN cfg.job \o ".data" ELSE cfg.datafile

OutputComment == " # Redirect the output to a file"

RECURSIVE Flatten(_)
Flatten(chunks) ==
    IF chunks = <<>> THEN <<>> ELSE Head(chunks) \o Flatten(Tail(chunks))

\* Whether `sub` occurs in `text`.
Contains(text, sub) ==
    \E i \in 1..(Len(text) + 1) :
        /\ i + Len(sub) - 1 <= Len(text)
        /\ SubSeq(text, i, i + Len(sub) - 1) = sub

ErrorStates == {"usage_error", "io_error", "spawn_error", "interrupted"}
HasRecord == /\ DataPath(ClaimDataName) \in DOMAIN fs
             /\ fs[DataPath(ClaimDataName)].kind = "record"
TheRecord == fs[DataPath(ClaimDataName)]

\* C1: when a file exists at the (possibly derived) logfile name, run ends
\* with the usage error, sbatch is never started, no temporary file is
\* created and no file, the record file included, is touched.
C1_ExistingLogRejected ==
    (pc # "start" /\ InDir(cwd, ClaimLogName) \in DOMAIN fs0)
        => /\ pc = "usage_error"
           /\ child.state = "none"
           /\ ~tempCreated
           /\ fs = fs0

\* C1 witness: run has ended with the usage error while a data file of that
\* name was there.
C1_Witness ==
    /\ pc = "usage_error"
    /\ DataPath(ClaimDataName) \in DOMAIN fs0
    /\ cfg.logfile = ""

\* C2: with -M the qos, cpus-per-task, gpus and mem directives are huge-long,
\* 4, rtxa4000:4 and 32gb whatever was supplied; without -M they carry the
\* supplied values; every other directive carries the supplied value.
C2_OverrideOnlyFourFields ==
    pc \notin {"start", "usage_error"}
        => /\ slurm_script[2] = "#SBATCH --job-name=" \o cfg.job
           /\ slurm_script[3] = "#SBATCH --qos="
                  \o (IF cfg.m THEN "huge-long" ELSE cfg.qos)
           /\ slurm_script[4] = "#SBATCH --partition=" \o cfg.part
           /\ slurm_script[5] = "#SBATCH --account=" \o cfg.acc
           /\ slurm_script[6] = "#SBATCH --ntasks=" \o ToString(cfg.ntasks.v)
           /\ slurm_script[7] = "#SBATCH --cpus-per-task="
                  \o (IF cfg.m THEN "4" ELSE ToString(cfg.cpu.v))
           /\ slurm_script[8] = "#SBATCH --mem="
                  \o (IF cfg.m THEN "32gb" ELSE cfg.mem \o "gb")
           /\ slurm_script[9] = "#SBATCH --gpus="
                  \o (IF cfg.m THEN "rtxa4000:4" ELSE cfg.gpu)
           /\ slurm_script[10] = "#SBATCH --time=" \o cfg.time
           /\ slurm_script[11] = "#SBATCH --output=" \o cfg.pwd \o "/"
                  \o ClaimLogName \o OutputComment

\* C2 witness: a script rendered with -M from options that all differ from
\* the override values.
C2_Witness ==
    /\ pc = "rendered"
    /\ cfg.m
    /\ cfg.qos = "high" /\ cfg.cpu = PyInt(8) /\ cfg.mem = "64"
    /\ cfg.gpu = "rtxa6000:2" /\ cfg.ntasks = PyInt(2) /\ cfg.time = "02:30"

\* C3: the temporary script file exists only while control is inside the
\* submission step; on every way out of it the file is gone.
C3_TempFileScoped ==
    TempPath \in DOMAIN fs => pc \in {"tempopen", "written", "wait", "communicate"}

\* C3 witness: the step was left by an error while sbatch was running, after
\* the file had been created.
C3_Witness ==
    /\ tempCreated
    /\ pc = "interrupted"
    /\ child.state = "running"

C5_PidFromFirstMatch ==
    LET raw  == Flatten(prog.out)
        hits == {i \in 1..Len(raw) : MatchAt(raw, i)}
        want == IF hits = {} THEN UnknownPID
                ELSE DigitRun(raw, (CHOOSE i \in hits : \A j \in hits : i <= j)
                                   + Len(Prefix))
    IN  /\ pc = "done" => HasRecord /\ TheRecord.pid = PidLine(want)
        /\ (hits = {} /\ child.state = "exited") => pc \notin ErrorStates

\* C5 witness: the job id is found after the second occurrence of the text,
\* the first one having no digits after it.
C5_Witness ==
    /\ pc = "done"
    /\ prog.out = <<Prefix, Prefix, <<"2">>>>
    /\ TheRecord.pid = PidLine(<<"2">>)

\* C6: a setup invoked with BATC_SETUP equal to "true" reports that setup has
\* been completed and does nothing else.
C6_GuardedSetupIsNoOp ==
    [][(setups' = setups + 1 /\ shellEnv = PyStr("true"))
          => /\ echoed' = Append(echoed, AlreadyDone)
             /\ bashrc' = bashrc
             /\ pipInstalls' = pipInstalls
             /\ sourceCalls' = sourceCalls
             /\ shellEnv' = shellEnv]_vars

\* C6 witness: setup has been invoked with the guard set, after a setup that
\* wrote the block.
C6_Witness ==
    /\ echoed # <<>>
    /\ Blocks = 1

\* C7: starting with the guard unset, the block is appended to the profile at
\* most once over any sequence of setup invocations.
C7_BlockAppendedAtMostOnce == Blocks <= 1

\* C8: the existence check is made against J.log when no logfile is given
\* (against the logfile given otherwise), the script directs the output to
\* that name, and the record goes to J.data when no datafile is given (to the
\* datafile given otherwise), and nowhere else.
C8_DerivedNamesUsed ==
    /\ pc # "start"
          => (pc = "usage_error" <=> InDir(cwd, ClaimLogName) \in DOMAIN fs0)
    /\ pc \notin {"start", "usage_error"}
          => slurm_script[11] = "#SBATCH --output=" \o cfg.pwd \o "/"
                 \o ClaimLogName \o OutputComment
    /\ pc = "done"
          => /\ HasRecord
             /\ DOMAIN fs = DOMAIN fs0 \cup {InDir(envPWD, ClaimDataName)}

\* C8 witness: a run with neither name given has written its record, while
\* another job's log was there.
C8_Witness ==
    /\ pc = "done"
    /\ cfg.logfile = "" /\ cfg.datafile = ""
    /\ cfg.job = "foo"
    /\ InDir(cwd, "bar.log") \in DOMAIN fs0

\* C9: while run waits for an sbatch that writes a finite amount and then
\* exits, the wait can always still end: sbatch has exited, or it can take its
\* next step.
C9_WaitCanAlwaysEnd ==
    pc = "wait"
        => \/ WaitDone(child)
           \/ ENABLED (ChildWriteOut \/ ChildWriteErr \/ ChildExit)

\* C10: when sbatch is started, no file existed, at the time of the check, at
\* the path the script's --output directive names.
C10_OutputPathWasFree ==
    child.state # "none"
        => \A p \in DOMAIN fs0 :
              slurm_script[11] # "#SBATCH --output=" \o p \o OutputComment

====
